---- MODULE Spec2Model ----
(***************************************************************************)
(* Daily-problem cooldown and points ledger of the DSA tool server         *)
(* (dsaQuestion.py; final.py carries the same code).  One asyncio event    *)
(* loop runs the tool handlers and the auto-push sweep; a step of the      *)
(* model is the code a coroutine runs between two suspension points.       *)
(***************************************************************************)
EXTENDS Integers, Sequences, FiniteSets

VARIABLES
    clock,                  \* time.time(), in whole seconds
    user_last_request,      \* dict user_id -> timestamp
    user_points,            \* dict user_id -> int
    user_current_problem,   \* dict user_id -> problem record
    key_order,              \* insertion order of user_last_request's keys
    req,                    \* the dsa_daily_problem coroutines in flight
    sweep,                  \* the auto_push_daily_problems coroutine
    steps,                  \* steps taken so far
    sf,                     \* the stream_finder call in flight
    issued,                 \* per user, the latest dsa_daily_problem call that
                            \* fetched and stored: its `now` and its record
    last                    \* what the latest step did and replied (observation)

vars == <<clock, user_last_request, user_points, user_current_problem,
          key_order, req, sweep, sf, steps, issued, last>>

maps == <<user_last_request, user_points, user_current_problem>>

----------------------------------------------------------------------------
(* Bounds of the model *)

MaxDays == 1
MaxSteps == 8

(* Program constants *)

COOLDOWN == 86400
SWEEP_INTERVAL == 3600
REWARD == 10
REWARD_COST == 50

Users == {"u1", "u2"}
Tasks == {"t1", "t2"}
TaskNo == [t \in Tasks |-> IF t = "t1" THEN 1 ELSE 2]
NoUser == "-"

\* The instants at which the clock is observed: the start, and the last
\* second of each cooldown window and the first second after it.
Times == {0} \cup UNION {{d * COOLDOWN - 1, d * COOLDOWN} : d \in 1..MaxDays}

----------------------------------------------------------------------------
(* Python dict operations *)

Get(d, k, default) == IF k \in DOMAIN d THEN d[k] ELSE default

Put(d, k, v) == [x \in (DOMAIN d) \cup {k} |-> IF x = k THEN v ELSE d[x]]

EmptyDict == [x \in {} |-> 0]

----------------------------------------------------------------------------
(* The upstream GraphQL endpoint and the fetcher *)

Questions ==
    { [title |-> "Two Sum", titleSlug |-> "two-sum", difficulty |-> "Easy"],
      [title |-> "Add Two Numbers", titleSlug |-> "add-two-numbers",
       difficulty |-> "Medium"] }

NoQuestion == [title |-> "", titleSlug |-> "", difficulty |-> ""]

\* What the POST can come back with.  net: the request itself; body: what
\* resp.json() finds; data, adq, question: the value under "data", under
\* "activeDailyCodingChallengeQuestion" and under "question".
Shape(net, body, data, adq, question, q) ==
    [net |-> net, body |-> body, data |-> data, adq |-> adq,
     question |-> question, q |-> q, date |-> "2025-08-10"]

Upstream ==
    { Shape("error", "-", "-", "-", "-", NoQuestion),
      Shape("ok", "nonjson", "-", "-", "-", NoQuestion),
      Shape("ok", "array", "-", "-", "-", NoQuestion),
      Shape("ok", "object", "null", "-", "-", NoQuestion),
      Shape("ok", "object", "absent", "-", "-", NoQuestion),
      Shape("ok", "object", "object", "absent", "-", NoQuestion),
      Shape("ok", "object", "object", "null", "-", NoQuestion),
      Shape("ok", "object", "object", "object", "absent", NoQuestion),
      Shape("ok", "object", "object", "object", "null", NoQuestion) }
    \cup { Shape("ok", "object", "object", "object", "object", q) : q \in Questions }

NoProblem == [title |-> "", link |-> <<>>, difficulty |-> "", date |-> ""]

Raised == [kind |-> "raise", prob |-> NoProblem]
Empty == [kind |-> "empty", prob |-> NoProblem]

Link(titleSlug) == <<"https://leetcode.com/problems/", titleSlug, "/">>

\* get_leetcode_daily_problem: a record, the empty dict, or an exception
\* leaving the coroutine.
get_leetcode_daily_problem(up) ==
    IF up.net = "error" THEN Raised                  \* client.post raises
    ELSE IF up.body = "nonjson" THEN Raised          \* resp.json() raises
    ELSE IF up.body = "array" THEN Raised            \* list has no .get
    ELSE IF up.data = "null" THEN Raised             \* None has no .get
    ELSE IF up.data = "absent" THEN Empty            \* {}.get(...) -> {}
    ELSE IF up.adq \in {"absent", "null"} THEN Empty \* data is falsy
    ELSE IF up.question \in {"absent", "null"} THEN Empty
    ELSE [kind |-> "record",
          prob |-> [title |-> up.q.title, link |-> Link(up.q.titleSlug),
                    difficulty |-> up.q.difficulty, date |-> up.date]]

\* What an await of the fetcher can end with, over every upstream answer.
FetchResults == {get_leetcode_daily_problem(up) : up \in Upstream}

----------------------------------------------------------------------------
(* Live-stream finder (final.py, starter.py): the two platform helpers *)

\* Most entries a platform answers with in the model (the requests ask for 5).
MaxStreams == 2

Lists(S) == UNION {[1..n -> S] : n \in 0..MaxStreams}

\* Strings are sequences of characters; str.lower maps the upper-case ones.
LowerOf ==
    [c \in {"T", "W", "I", "C", "H", "Y", "O", "U", "B", "E", "K"} |->
        CASE c = "T" -> "t" [] c = "W" -> "w" [] c = "I" -> "i"
          [] c = "C" -> "c" [] c = "H" -> "h" [] c = "Y" -> "y"
          [] c = "O" -> "o" [] c = "U" -> "u" [] c = "B" -> "b"
          [] c = "E" -> "e" [] c = "K" -> "k"]

lower(s) ==
    [i \in 1..Len(s) |-> IF s[i] \in DOMAIN LowerOf THEN LowerOf[s[i]] ELSE s[i]]

twitch == <<"t", "w", "i", "t", "c", "h">>
youtube == <<"y", "o", "u", "t", "u", "b", "e">>

\* `platform: str | None`: given is FALSE for None.
Platform(given, text) == [given |-> given, text |-> text]

Platforms ==
    { Platform(FALSE, <<>>), Platform(TRUE, <<>>),
      Platform(TRUE, twitch), Platform(TRUE, <<"T", "w", "i", "t", "c", "h">>),
      Platform(TRUE, youtube),
      Platform(TRUE, <<"Y", "O", "U", "T", "U", "B", "E">>),
      Platform(TRUE, <<"k", "i", "c", "k">>) }

\* What Twitch's helix/streams and YouTube's search list per entry.
TwitchEntries ==
    { [user_name |-> "Ann", title |-> "ranked", user_login |-> "ann"],
      [user_name |-> "Bob", title |-> "casual", user_login |-> "bob"] }

YouTubeEntries ==
    { [channelTitle |-> "Cat", title |-> "finals", videoId |-> "c1"],
      [channelTitle |-> "Dan", title |-> "scrims", videoId |-> "d2"] }

\* games: the helix/games request (fails, finds no game, finds one);
\* streams: the helix/streams request; data: its entries.
TwitchUpstream ==
    { [games |-> "error", streams |-> "-", data |-> <<>>],
      [games |-> "nodata", streams |-> "-", data |-> <<>>],
      [games |-> "found", streams |-> "error", data |-> <<>>] }
    \cup { [games |-> "found", streams |-> "ok", data |-> d] :
             d \in Lists(TwitchEntries) }

YouTubeUpstream ==
    { [resp |-> "error", items |-> <<>>] }
    \cup { [resp |-> "ok", items |-> d] : d \in Lists(YouTubeEntries) }

StreamsRaised == [kind |-> "raise", list |-> <<>>]

Streams(list) == [kind |-> "list", list |-> list]

\* get_twitch_live_streams: a list of {user_name, title, url}, or an
\* exception leaving the coroutine.
get_twitch_live_streams(up) ==
    IF up.games = "error" THEN StreamsRaised          \* client.get raises
    ELSE IF up.games = "nodata" THEN Streams(<<>>)    \* `if not data: return []`
    ELSE IF up.streams = "error" THEN StreamsRaised
    ELSE Streams([i \in 1..Len(up.data) |->
                    [name |-> up.data[i].user_name, title |-> up.data[i].title,
                     url |-> <<"https://twitch.tv/", up.data[i].user_login>>]])

\* get_youtube_live_streams: a list of {channelTitle, title, url}, or an
\* exception.
get_youtube_live_streams(up) ==
    IF up.resp = "error" THEN StreamsRaised
    ELSE Streams([i \in 1..Len(up.items) |->
                    [name |-> up.items[i].channelTitle,
                     title |-> up.items[i].title,
                     url |-> <<"https://www.youtube.com/watch?v=",
                               up.items[i].videoId>>]])

TwitchResults == {get_twitch_live_streams(up) : up \in TwitchUpstream}
YouTubeResults == {get_youtube_live_streams(up) : up \in YouTubeUpstream}

\* f"[Twitch] {name}: {title} ({url})"
Line(tag, s) == <<tag, s.name, ": ", s.title, " (">> \o s.url \o <<")">>

Lines(tag, list) == [i \in 1..Len(list) |-> Line(tag, list[i])]

\* "\n".join(results)
RECURSIVE join(_)
join(results) ==
    IF Len(results) = 0 THEN <<>>
    ELSE IF Len(results) = 1 THEN results[1]
    ELSE results[1] \o <<"\n">> \o join(Tail(results))

NoStreamsMessage == <<"No live streams found right now.">>

\* `"\n".join(results) if results else "No live streams found right now."`
Rendered(results) == IF results # <<>> THEN join(results) ELSE NoStreamsMessage

\* The state of a stream_finder call: where it is suspended, the platforms
\* it has queried so far, its `results` list and what it returned.
Call(pc, platform, queried, results, reply) ==
    [pc |-> pc, platform |-> platform, queried |-> queried,
     results |-> results, reply |-> reply]

IdleCall == Call("idle", Platform(FALSE, <<>>), {}, <<>>, <<>>)

----------------------------------------------------------------------------
(* Replies and the observation of the latest step *)

Reply(kind, p, n) ==
    [kind |-> kind, title |-> p.title, difficulty |-> p.difficulty,
     link |-> p.link, n |-> n]

NoReply == Reply("none", NoProblem, 0)

\* op: the step; user: whose call or entry; reply: what the caller (or, for the
\* sweep, the push) got; fetches: fetcher invocations the call has made;
\* overwrote: the step stored a record for a user whose timestamp had been
\* rewritten since the storing coroutine read it.
Obs(op, user_id, reply, fetches, overwrote) ==
    [op |-> op, user |-> user_id, reply |-> reply, fetches |-> fetches,
     overwrote |-> overwrote]

IdleReq == [pc |-> "idle", user_id |-> NoUser, now |-> 0, last_time |-> 0]

\* main() creates the sweep task before it serves a request: the first pass
\* finds user_last_request empty and goes to sleep.
Sleeping(wakeAt) ==
    [pc |-> "sleep", now |-> 0, items |-> <<>>, idx |-> 0, wakeAt |-> wakeAt]

Init ==
    /\ clock = 0
    /\ user_last_request = EmptyDict
    /\ user_points = EmptyDict
    /\ user_current_problem = EmptyDict
    /\ key_order = <<>>
    /\ req = [t \in Tasks |-> IdleReq]
    /\ sweep = Sleeping(SWEEP_INTERVAL)
    /\ sf = IdleCall
    /\ steps = 0
    /\ issued = EmptyDict
    /\ last = Obs("init", NoUser, NoReply, 0, FALSE)

\* The model follows an execution for MaxSteps steps.
Step == steps < MaxSteps /\ steps' = steps + 1

\* Wall-clock time passes between steps.
Tick ==
    /\ Step
    /\ \E t \in Times : t > clock /\ clock' = t
    /\ UNCHANGED <<maps, key_order, req, sweep, sf, issued, last>>

----------------------------------------------------------------------------
(* Tool: daily problem *)

\* Mutant: the window's last second counted twice (<= for <).
CacheHit_Inclusive(user_id, now) ==
    /\ now - Get(user_last_request, user_id, 0) <= COOLDOWN
    /\ user_id \in DOMAIN user_current_problem

\* `now - last_time < 86400 and user_id in user_current_problem`
CacheHit(user_id, now) ==
    /\ now - Get(user_last_request, user_id, 0) < COOLDOWN
    /\ user_id \in DOMAIN user_current_problem

\* Mutant: the emptiness check dropped.
NotProb_Never(r) == FALSE

\* `if not prob`: the empty dict is falsy
NotProb(r) == r.kind = "empty"

\* Mutant: a record is replaced but never created.
StoreProblem_OnlyExisting(user_id, prob) ==
    IF user_id \in DOMAIN user_current_problem
    THEN Put(user_current_problem, user_id, prob)
    ELSE user_current_problem

\* Mutant: the fetched record replaces every user's record.
StoreProblem_ForAll(user_id, prob) ==
    [x \in (DOMAIN user_current_problem) \cup {user_id} |-> prob]

StoreProblem(user_id, prob) == Put(user_current_problem, user_id, prob)

\* Mutant: the stored timestamp never moves back.
StoreRequestTime_KeepNewest(user_id, now) ==
    Put(user_last_request, user_id,
        IF Get(user_last_request, user_id, 0) > now
        THEN user_last_request[user_id] ELSE now)

StoreRequestTime(user_id, now) == Put(user_last_request, user_id, now)

\* Observation of a store: the coroutine read `read` as the user's timestamp
\* before it suspended, another coroutine has stored since, and this store
\* replaces both the record and the timestamp of that one.
Overwrites(user_id, read, now, prob) ==
    /\ user_id \in DOMAIN user_last_request
    /\ user_last_request[user_id] # read
    /\ user_last_request[user_id] # now
    /\ user_current_problem[user_id] # prob

\* A dict keeps its keys in insertion order; assigning to a present key
\* keeps the key's place.
KeyOrderAfter(user_id) ==
    IF user_id \in DOMAIN user_last_request THEN key_order
    ELSE Append(key_order, user_id)

\* dsa_daily_problem up to its first suspension: the cache-hit return, or
\* the await of the fetcher.
\* The handlers are interchangeable coroutines: a call takes the first free one.
FreeTask(t) ==
    /\ req[t].pc = "idle"
    /\ \A t2 \in Tasks : req[t2].pc = "idle" => TaskNo[t] <= TaskNo[t2]

dsa_daily_problem(t, user_id) ==
    /\ Step
    /\ FreeTask(t)
    /\ LET now == clock
           last_time == Get(user_last_request, user_id, 0)
       IN  IF CacheHit(user_id, now)
           THEN /\ last' = Obs("daily", user_id,
                               Reply("cached", user_current_problem[user_id], 0),
                               0, FALSE)
                /\ UNCHANGED req
           ELSE /\ req' = [req EXCEPT ![t] =
                              [pc |-> "await", user_id |-> user_id, now |-> now,
                               last_time |-> last_time]]
                /\ last' = Obs("daily_await", user_id, NoReply, 1, FALSE)
    /\ UNCHANGED <<clock, maps, key_order, sweep, sf, issued>>

\* dsa_daily_problem from the fetcher's answer to its return.
dsa_daily_problem_resume(t, r) ==
    /\ Step
    /\ req[t].pc = "await"
    /\ LET user_id == req[t].user_id
           now == req[t].now
       IN  IF r.kind = "raise"
           THEN /\ last' = Obs("daily_resume", user_id,
                               Reply("raised", NoProblem, 0), 1, FALSE)
                /\ UNCHANGED <<maps, key_order, issued>>
           ELSE IF NotProb(r)
           THEN /\ last' = Obs("daily_resume", user_id,
                               Reply("fetch_failed", NoProblem, 0), 1, FALSE)
                /\ UNCHANGED <<maps, key_order, issued>>
           ELSE /\ user_current_problem' = StoreProblem(user_id, r.prob)
                /\ user_last_request' = StoreRequestTime(user_id, now)
                /\ key_order' = KeyOrderAfter(user_id)
                /\ issued' = Put(issued, user_id, [at |-> now, prob |-> r.prob])
                /\ last' = Obs("daily_resume", user_id,
                               Reply("fresh", r.prob, 0), 1,
                               Overwrites(user_id, req[t].last_time, now, r.prob))
                /\ UNCHANGED user_points
    /\ req' = [req EXCEPT ![t] = IdleReq]
    /\ UNCHANGED <<clock, sweep, sf>>

----------------------------------------------------------------------------
(* Tools: submit solution, show points, claim rewards *)

Whitespace == {" ", "\t"}

Solutions == { <<>>, <<"\t", " ">>, <<"x">>, <<" ", "x", "\t">> }

RECURSIVE lstrip(_)
lstrip(s) ==
    IF s # <<>> /\ Head(s) \in Whitespace THEN lstrip(Tail(s)) ELSE s

RECURSIVE rstrip(_)
rstrip(s) ==
    IF s # <<>> /\ s[Len(s)] \in Whitespace
    THEN rstrip(SubSeq(s, 1, Len(s) - 1)) ELSE s

\* Mutant: a submission is accepted without a daily problem.
NoActiveProblem_Never(user_id) == FALSE

\* Mutant: one rewarded submission per user.
NoActiveProblem_AfterReward(user_id) ==
    \/ user_id \notin DOMAIN user_current_problem
    \/ Get(user_points, user_id, 0) > 0

\* `if user_id not in user_current_problem`
NoActiveProblem(user_id) == user_id \notin DOMAIN user_current_problem

\* Mutant: the text is tested as given, not stripped.
strip_Nothing(s) == s

strip(s) == rstrip(lstrip(s))

\* Mutant: the reward replaces the balance.
CreditedPoints_FromScratch(user_id) == Put(user_points, user_id, REWARD)

\* Mutant: half the reward.
CreditedPoints_Half(user_id) ==
    Put(user_points, user_id, Get(user_points, user_id, 0) + REWARD \div 2)

\* `user_points[user_id] = user_points.get(user_id, 0) + 10`
CreditedPoints(user_id) ==
    Put(user_points, user_id, Get(user_points, user_id, 0) + REWARD)

check_dsa_solution(user_id, solution) ==
    /\ Step
    /\ IF NoActiveProblem(user_id)
       THEN /\ last' = Obs("submit", user_id, Reply("no_problem", NoProblem, 0),
                           0, FALSE)
            /\ UNCHANGED user_points
       ELSE IF strip(solution) = <<>>
       THEN /\ last' = Obs("submit", user_id, Reply("invalid", NoProblem, 0),
                           0, FALSE)
            /\ UNCHANGED user_points
       ELSE /\ user_points' = CreditedPoints(user_id)
            /\ last' = Obs("submit", user_id,
                           Reply("saved", NoProblem, user_points'[user_id]),
                           0, FALSE)
    /\ UNCHANGED <<clock, user_last_request, user_current_problem, key_order,
                   req, sweep, sf, issued>>

\* Mutant: the read leaves a zero balance behind (setdefault for get).
show_points_CreatesEntry(user_id) ==
    /\ Step
    /\ user_points' = Put(user_points, user_id, Get(user_points, user_id, 0))
    /\ last' = Obs("show_points", user_id,
                   Reply("points", NoProblem, Get(user_points, user_id, 0)),
                   0, FALSE)
    /\ UNCHANGED <<clock, user_last_request, user_current_problem, key_order,
                   req, sweep, sf, issued>>

show_points(user_id) ==
    /\ Step
    /\ last' = Obs("show_points", user_id,
                   Reply("points", NoProblem, Get(user_points, user_id, 0)),
                   0, FALSE)
    /\ UNCHANGED <<clock, maps, key_order, req, sweep, sf, issued>>

\* Mutant: the balance compared with the reward instead of the cost.
InsufficientPoints_WrongThreshold(user_id) ==
    Get(user_points, user_id, 0) < REWARD

\* `user_points.get(user_id, 0) < 50`
InsufficientPoints(user_id) == Get(user_points, user_id, 0) < REWARD_COST

\* Mutant: the reward's size deducted instead of the cost.
ClaimedPoints_DeductsReward(user_id) ==
    [user_points EXCEPT ![user_id] = user_points[user_id] - REWARD]

\* `user_points[user_id] -= 50`
ClaimedPoints(user_id) ==
    [user_points EXCEPT ![user_id] = user_points[user_id] - REWARD_COST]

claim_rewards(user_id) ==
    /\ Step
    /\ IF InsufficientPoints(user_id)
       THEN /\ last' = Obs("claim", user_id,
                           Reply("deficit", NoProblem, Get(user_points, user_id, 0)),
                           0, FALSE)
            /\ UNCHANGED user_points
       ELSE /\ user_points' = ClaimedPoints(user_id)
            /\ last' = Obs("claim", user_id, Reply("claimed", NoProblem, 0),
                           0, FALSE)
    /\ UNCHANGED <<clock, user_last_request, user_current_problem, key_order,
                   req, sweep, sf, issued>>

----------------------------------------------------------------------------
(* Auto-push scheduler *)

\* `now - last_time >= 86400`
Due(now, last_time) == now - last_time >= COOLDOWN

\* list(user_last_request.items())
Items ==
    [i \in 1..Len(key_order) |->
        [user_id |-> key_order[i], last_time |-> user_last_request[key_order[i]]]]

\* The next index at or after `from` whose snapshot entry is due; 0 when the
\* for loop runs out.
NextDue(items, from, now) ==
    LET due == {i \in from..Len(items) : Due(now, items[i].last_time)}
    IN  IF due = {} THEN 0 ELSE CHOOSE i \in due : \A j \in due : i <= j

\* The loop from index `from` to its next suspension: the await of the
\* fetcher for the next due entry, or asyncio.sleep(3600) after the loop.
SweepAdvance(now, items, from) ==
    LET j == NextDue(items, from, now)
    IN  IF j = 0
        THEN Sleeping(clock + SWEEP_INTERVAL)
        ELSE [pc |-> "await", now |-> now, items |-> items, idx |-> j,
              wakeAt |-> 0]

\* Mutant: the sweep stores whatever the fetcher returned.
SweepStores_Always(r) == TRUE

\* `if prob:`
SweepStores(r) == r.kind = "record"

\* A pass starts: at task creation and whenever the sleep is over.
auto_push_begin ==
    /\ Step
    /\ sweep.pc = "sleep"
    /\ clock >= sweep.wakeAt
    /\ sweep' = SweepAdvance(clock, Items, 1)
    /\ last' = Obs("sweep_begin", NoUser, NoReply, 0, FALSE)
    /\ UNCHANGED <<clock, maps, key_order, req, sf, issued>>

\* The pass from the fetcher's answer to its next suspension.
auto_push_resume(r) ==
    /\ Step
    /\ sweep.pc = "await"
    /\ LET user_id == sweep.items[sweep.idx].user_id
           now == sweep.now
       IN  IF r.kind = "raise"
           THEN /\ sweep' = [sweep EXCEPT !.pc = "dead"]
                /\ last' = Obs("sweep_resume", user_id,
                               Reply("raised", NoProblem, 0), 1, FALSE)
                /\ UNCHANGED <<maps, key_order>>
           ELSE /\ sweep' = SweepAdvance(now, sweep.items, sweep.idx + 1)
                /\ IF SweepStores(r)
                   THEN /\ user_current_problem' = StoreProblem(user_id, r.prob)
                        /\ user_last_request' = StoreRequestTime(user_id, now)
                        /\ key_order' = KeyOrderAfter(user_id)
                        /\ last' = Obs("sweep_resume", user_id,
                                       Reply("pushed", r.prob, 0), 1,
                                       Overwrites(user_id,
                                                  sweep.items[sweep.idx].last_time,
                                                  now, r.prob))
                        /\ UNCHANGED user_points
                   ELSE /\ last' = Obs("sweep_resume", user_id,
                                       Reply("fetch_failed", NoProblem, 0), 1,
                                       FALSE)
                        /\ UNCHANGED <<maps, key_order>>
    /\ UNCHANGED <<clock, req, sf, issued>>

----------------------------------------------------------------------------

Next ==
    \/ Tick
    \/ \E t \in Tasks, u \in Users : dsa_daily_problem(t, u)
    \/ \E t \in Tasks, r \in FetchResults : dsa_daily_problem_resume(t, r)
    \/ \E u \in Users, s \in Solutions : check_dsa_solution(u, s)
    \/ \E u \in Users : show_points(u)
    \/ \E u \in Users : claim_rewards(u)
    \/ auto_push_begin
    \/ \E r \in FetchResults : auto_push_resume(r)

Spec == Init /\ [][Next]_vars

----------------------------------------------------------------------------
(* Tool: stream finder *)

\* `not platform`: None and the empty string are falsy
NotPlatform(platform) == ~platform.given \/ platform.text = <<>>

\* `not platform or platform.lower() == "twitch"`
QueriesTwitch(platform) == NotPlatform(platform) \/ lower(platform.text) = twitch

\* `not platform or platform.lower() == "youtube"`
QueriesYouTube(platform) ==
    NotPlatform(platform) \/ lower(platform.text) = youtube

\* stream_finder up to its first suspension: the await of the Twitch helper,
\* or of the YouTube helper, or the return when neither is queried.
stream_finder(platform) ==
    /\ sf.pc \in {"idle", "returned", "raised"}
    /\ sf' = IF QueriesTwitch(platform)
             THEN Call("twitch", platform, {"twitch"}, <<>>, <<>>)
             ELSE IF QueriesYouTube(platform)
             THEN Call("youtube", platform, {"youtube"}, <<>>, <<>>)
             ELSE Call("returned", platform, {}, <<>>, Rendered(<<>>))
    /\ UNCHANGED <<clock, maps, key_order, req, sweep, steps, issued, last>>

\* stream_finder from the Twitch helper's answer to the await of the YouTube
\* helper or to the return.
stream_finder_twitch(r) ==
    /\ sf.pc = "twitch"
    /\ sf' = IF r.kind = "raise"
             THEN Call("raised", sf.platform, sf.queried, sf.results, <<>>)
             ELSE LET results == sf.results \o Lines("[Twitch] ", r.list)
                  IN  IF QueriesYouTube(sf.platform)
                      THEN Call("youtube", sf.platform,
                                sf.queried \cup {"youtube"}, results, <<>>)
                      ELSE Call("returned", sf.platform, sf.queried, results,
                                Rendered(results))
    /\ UNCHANGED <<clock, maps, key_order, req, sweep, steps, issued, last>>

\* stream_finder from the YouTube helper's answer to the return.
stream_finder_youtube(r) ==
    /\ sf.pc = "youtube"
    /\ sf' = IF r.kind = "raise"
             THEN Call("raised", sf.platform, sf.queried, sf.results, <<>>)
             ELSE LET results == sf.results \o Lines("[YouTube] ", r.list)
                  IN  Call("returned", sf.platform, sf.queried, results,
                           Rendered(results))
    /\ UNCHANGED <<clock, maps, key_order, req, sweep, steps, issued, last>>

StreamNext ==
    \/ \E platform \in Platforms : stream_finder(platform)
    \/ \E r \in TwitchResults : stream_finder_twitch(r)
    \/ \E r \in YouTubeResults : stream_finder_youtube(r)

\* The stream finder shares no state with the other tools.
StreamSpec == Init /\ [][StreamNext]_vars

----------------------------------------------------------------------------
(* Properties *)

HasRecord(u) == u \in DOMAIN user_current_problem

\* C1: no balance is ever negative, whatever calls and sweep passes happened.
C1_PointsNeverNegative == \A u \in DOMAIN user_points : user_points[u] >= 0

\* A claim has just deducted the whole balance.
C1_Witness ==
    /\ last.op = "claim"
    /\ last.reply.kind = "claimed"
    /\ user_points[last.user] = 0

\* C2: a record is stored (by dsa_daily_problem or by the sweep) only for a
\* user without a record or at least 86400 seconds after the timestamp the
\* user has at the moment of the store.
C2_StoredOnlyAfterCooldown ==
    [][ \A r \in FetchResults :
          r.kind = "record" =>
            /\ \A t \in Tasks :
                 dsa_daily_problem_resume(t, r) =>
                   \/ ~HasRecord(req[t].user_id)
                   \/ clock - user_last_request[req[t].user_id] >= COOLDOWN
            /\ auto_push_resume(r) =>
                   \/ ~HasRecord(sweep.items[sweep.idx].user_id)
                   \/ clock - user_last_request[sweep.items[sweep.idx].user_id]
                        >= COOLDOWN ]_vars

\* C3: user_last_request changes only in a step that resumes dsa_daily_problem
\* or the sweep with a record from the fetcher.
C3_TimestampOnlyAfterFetchedRecord ==
    [][ user_last_request' # user_last_request =>
          \E r \in FetchResults :
             /\ r.kind = "record"
             /\ \/ \E t \in Tasks : dsa_daily_problem_resume(t, r)
                \/ auto_push_resume(r) ]_vars

\* The sweep has just pushed a record and moved the user's timestamp.
C3_Witness ==
    /\ last.op = "sweep_resume"
    /\ last.reply.kind = "pushed"
    /\ user_last_request[last.user] = COOLDOWN

\* C4: a dsa_daily_problem call less than 86400 seconds after the user's
\* latest successful call replies with the record of that call, does not
\* invoke the fetcher and leaves the record and the timestamp alone.
C4_CachedWithinCooldown ==
    [][ \A t \in Tasks, u \in Users :
          ( /\ dsa_daily_problem(t, u)
            /\ u \in DOMAIN issued
            /\ clock - issued[u].at < COOLDOWN )
          => /\ last'.reply = Reply("cached", issued[u].prob, 0)
             /\ last'.fetches = 0
             /\ req'[t].pc = "idle"
             /\ UNCHANGED <<user_current_problem, user_last_request>> ]_vars

\* C5: a call by a user without a record, or 86400 seconds or more after the
\* user's timestamp, awaits the fetcher once; resumed with a record it stores
\* the record, sets the timestamp to the call's `now` and replies with the
\* record.
C5_FetchAndStoreAfterCooldown ==
    [][ \A t \in Tasks :
          /\ \A u \in Users :
               ( /\ last'.op \in {"daily", "daily_await"}
                 /\ last'.user = u
                 /\ dsa_daily_problem(t, u)
                 /\ \/ ~HasRecord(u)
                    \/ clock - user_last_request[u] >= COOLDOWN )
               => /\ req'[t] = [pc |-> "await", user_id |-> u, now |-> clock,
                                last_time |-> Get(user_last_request, u, 0)]
                  /\ last'.fetches = 1
                  /\ UNCHANGED maps
          /\ \A r \in FetchResults :
               ( /\ r.kind = "record"
                 /\ last'.op = "daily_resume"
                 /\ req[t].pc = "await"
                 /\ dsa_daily_problem_resume(t, r) )
               => /\ user_current_problem'[req[t].user_id] = r.prob
                  /\ user_last_request'[req[t].user_id] = req[t].now
                  /\ last'.reply = Reply("fresh", r.prob, 0)
                  /\ last'.fetches = 1
                  /\ req'[t].pc = "idle" ]_vars

\* A user with a record calls exactly 86400 seconds after the timestamp and
\* the call is suspended on the fetcher.
C5_Witness ==
    /\ last.op = "daily_await"
    /\ HasRecord(last.user)
    /\ clock - user_last_request[last.user] = COOLDOWN
    /\ \E t \in Tasks : req[t].pc = "await" /\ req[t].user_id = last.user
                        /\ req[t].now = clock

\* C6: dsa_daily_problem resumed with the fetcher's empty result replies with
\* the failure text and leaves the three dicts as they were.
C6_EmptyFetchChangesNothing ==
    [][ \A t \in Tasks :
          dsa_daily_problem_resume(t, Empty)
          => /\ UNCHANGED maps
             /\ last'.reply = Reply("fetch_failed", NoProblem, 0) ]_vars

\* A first call has just failed on an empty fetch: the user has no entry.
C6_Witness ==
    /\ last.op = "daily_resume"
    /\ last.reply.kind = "fetch_failed"
    /\ last.user \notin DOMAIN user_current_problem
    /\ last.user \notin DOMAIN user_last_request

\* C7: whatever the upstream answers, the fetcher returns a record or the
\* empty result: no exception reaches dsa_daily_problem or the sweep.
C7_FetcherNeverRaises == last.reply.kind # "raised"

\* C8: nothing guards the read-await-store sequence: a coroutine that stores
\* after another one rewrote the user's timestamp behind its back still stores
\* its own record and its own `now`, so the other store is lost.
C8_StaleStoreOverwrites ==
    [][ \A r \in FetchResults :
          (r.kind = "record" /\ last'.op \in {"daily_resume", "sweep_resume"}) =>
            /\ \A t \in Tasks :
                 ( /\ req[t].pc = "await"
                   /\ Get(user_last_request, req[t].user_id, 0) # req[t].last_time
                   /\ dsa_daily_problem_resume(t, r) )
                 => /\ user_current_problem'[req[t].user_id] = r.prob
                    /\ user_last_request'[req[t].user_id] = req[t].now
            /\ ( /\ sweep.pc = "await"
                 /\ user_last_request[sweep.items[sweep.idx].user_id]
                      # sweep.items[sweep.idx].last_time
                 /\ auto_push_resume(r) )
               => /\ user_current_problem'[sweep.items[sweep.idx].user_id] = r.prob
                  /\ user_last_request'[sweep.items[sweep.idx].user_id] = sweep.now
       ]_vars

\* Two coroutines fetched for the same user on the same stale timestamp, and
\* the later store has just replaced the record and the timestamp of the
\* earlier one.
C8_Witness ==
    /\ last.overwrote
    /\ last.op \in {"daily_resume", "sweep_resume"}
    /\ user_last_request[last.user] < clock

\* What a sweep step works on: the snapshot and `now` of the pass, and the
\* index its loop continues from.
PassItems == IF sweep.pc = "await" THEN sweep.items ELSE Items
PassNow == IF sweep.pc = "await" THEN sweep.now ELSE clock
PassFrom == IF sweep.pc = "await" THEN sweep.idx + 1 ELSE 1
PassDue ==
    {i \in PassFrom..Len(PassItems) : PassNow - PassItems[i].last_time >= COOLDOWN}

\* C9: a pass fetches for exactly the users whose timestamp, as the pass found
\* it, is 86400 seconds or more before the pass's `now`: every step of the
\* pass goes on to the next such user, or to sleep when there is none; a
\* fetched record is stored with the pass's `now`; no other entry is touched.
C9_PassFetchesExactlyTheDue ==
    [][ \A r \in FetchResults :
          (auto_push_begin \/ auto_push_resume(r)) =>
            /\ IF PassDue = {}
               THEN sweep'.pc = "sleep"
               ELSE /\ sweep'.pc = "await"
                    /\ sweep'.now = PassNow
                    /\ sweep'.items = PassItems
                    /\ sweep'.idx \in PassDue
                    /\ \A i \in PassDue : sweep'.idx <= i
            /\ \A u \in Users :
                 IF sweep.pc = "await" /\ u = sweep.items[sweep.idx].user_id
                    /\ r.kind = "record"
                 THEN /\ user_current_problem'[u] = r.prob
                      /\ user_last_request'[u] = sweep.now
                 ELSE /\ (u \in DOMAIN user_last_request') =
                            (u \in DOMAIN user_last_request)
                      /\ (u \in DOMAIN user_current_problem') =
                            (u \in DOMAIN user_current_problem)
                      /\ u \in DOMAIN user_last_request =>
                            user_last_request'[u] = user_last_request[u]
                      /\ u \in DOMAIN user_current_problem =>
                            user_current_problem'[u] = user_current_problem[u]
       ]_vars

\* C10: a failed fetch in a pass leaves the timestamps alone and does not stop
\* the sweep: the coroutine goes on to its next fetch or to its sleep.
C10_FailedFetchKeepsSweepRunning ==
    [][ \A r \in FetchResults :
          (auto_push_resume(r) /\ r.kind # "record")
          => /\ user_last_request' = user_last_request
             /\ sweep'.pc \in {"await", "sleep"} ]_vars

\* C11: claim_rewards for a user whose balance (0 when the user has no entry)
\* is below 50 replies with the deficit text naming that balance and leaves
\* the three dicts as they were; otherwise it takes exactly 50 off the user's
\* balance and changes nothing else.
C11_ClaimDeductsOnlyWhenAffordable ==
    [][ \A u \in Users :
          (last'.op = "claim" /\ last'.user = u /\ claim_rewards(u)) =>
            IF Get(user_points, u, 0) < REWARD_COST
            THEN /\ last'.reply =
                       Reply("deficit", NoProblem, Get(user_points, u, 0))
                 /\ UNCHANGED maps
            ELSE /\ last'.reply.kind = "claimed"
                 /\ DOMAIN user_points' = DOMAIN user_points
                 /\ user_points'[u] = user_points[u] - REWARD_COST
                 /\ \A v \in DOMAIN user_points \ {u} :
                       user_points'[v] = user_points[v]
                 /\ UNCHANGED <<user_last_request, user_current_problem>> ]_vars

\* A reward has just been claimed while the other user, who never earned a
\* point, still has no balance entry.
C11_Witness ==
    /\ last.op = "claim"
    /\ last.reply.kind = "claimed"
    /\ last.user \in DOMAIN user_points
    /\ \E v \in Users : v # last.user /\ v \notin DOMAIN user_points

\* The text has a character that is not whitespace.
NonBlank(solution) == \E i \in DOMAIN solution : solution[i] \notin Whitespace

\* C12: check_dsa_solution with a text that has a non-whitespace character,
\* for a user with a record, adds exactly 10 to the user's balance (counted
\* from 0 when the user has no entry), replies with the new balance and
\* changes nothing else.
C12_SubmissionAddsTen ==
    [][ \A u \in Users, s \in Solutions :
          ( /\ last'.op = "submit"
            /\ last'.user = u
            /\ NonBlank(s)
            /\ HasRecord(u)
            /\ check_dsa_solution(u, s) )
          => /\ user_points' =
                   Put(user_points, u, Get(user_points, u, 0) + REWARD)
             /\ last'.reply =
                   Reply("saved", NoProblem, Get(user_points, u, 0) + REWARD)
             /\ UNCHANGED <<user_last_request, user_current_problem>> ]_vars

\* A submission has just been rewarded on top of an earlier reward.
C12_Witness ==
    /\ last.op = "submit"
    /\ last.reply.kind = "saved"
    /\ last.reply.n = 2 * REWARD
    /\ user_points[last.user] = 2 * REWARD

\* C13: check_dsa_solution with an empty or whitespace-only text returns a
\* failure reply (the invalid-solution text when the user has a record, the
\* no-active-problem text otherwise) and leaves the balances as they were,
\* whatever the user's balance.
C13_BlankSubmissionRejected ==
    [][ \A u \in Users, s \in Solutions :
          ( /\ last'.op = "submit"
            /\ last'.user = u
            /\ ~NonBlank(s)
            /\ check_dsa_solution(u, s) )
          => /\ last'.reply =
                   Reply(IF HasRecord(u) THEN "invalid" ELSE "no_problem",
                         NoProblem, 0)
             /\ UNCHANGED maps ]_vars

\* A blank text has just been rejected for a user who holds points.
C13_Witness ==
    /\ last.op = "submit"
    /\ last.reply.kind = "invalid"
    /\ Get(user_points, last.user, 0) > 0

\* C14: check_dsa_solution for a user without a record replies with the
\* no-active-problem text, whatever the text submitted, and leaves the three
\* dicts as they were: no points are awarded and no entry is created.
C14_NoProblemNoPoints ==
    [][ \A u \in Users, s \in Solutions :
          ( /\ last'.op = "submit"
            /\ last'.user = u
            /\ ~HasRecord(u)
            /\ check_dsa_solution(u, s) )
          => /\ last'.reply = Reply("no_problem", NoProblem, 0)
             /\ UNCHANGED maps ]_vars

\* A user without a record has just been turned away while the other user
\* has a record and points.
C14_Witness ==
    /\ last.op = "submit"
    /\ last.reply.kind = "no_problem"
    /\ ~HasRecord(last.user)
    /\ last.user \notin DOMAIN user_points
    /\ \E v \in Users : HasRecord(v) /\ Get(user_points, v, 0) > 0

\* C15: show_points replies with the user's balance, 0 for a user without an
\* entry, and changes none of the three dicts (it creates no entry); a
\* show_points call that directly follows one for the same user gets the
\* same reply.
C15_ShowPointsIsPureRead ==
    [][ \A u \in Users :
          (last'.op = "show_points" /\ last'.user = u /\ show_points(u)) =>
            /\ last'.reply =
                  Reply("points", NoProblem,
                        IF u \in DOMAIN user_points THEN user_points[u] ELSE 0)
            /\ UNCHANGED maps
            /\ (last.op = "show_points" /\ last.user = u)
                  => last'.reply = last.reply ]_vars

\* A user never seen before has just been told 0 points and still has no
\* entry in any dict, while the other user holds points.
C15_Witness ==
    /\ last.op = "show_points"
    /\ last.reply.n = 0
    /\ last.user \notin DOMAIN user_points
    /\ last.user \notin DOMAIN user_last_request
    /\ last.user \notin DOMAIN user_current_problem
    /\ \E v \in Users : Get(user_points, v, 0) > 0

\* The platforms the filter asks for: the one it names, whatever the case
\* of its letters, and both when no filter is given.
Wanted(platform) ==
    IF ~platform.given THEN {"twitch", "youtube"}
    ELSE IF lower(platform.text) = twitch THEN {"twitch"}
    ELSE IF lower(platform.text) = youtube THEN {"youtube"}
    ELSE {}

Named(platform) ==
    ~platform.given \/ lower(platform.text) \in {twitch, youtube}

\* Every "[Twitch] " tag of the reply comes before every "[YouTube] " tag.
TwitchFirst(reply) ==
    \A i, j \in 1..Len(reply) :
        (reply[i] = "[Twitch] " /\ reply[j] = "[YouTube] ") => i < j

\* C16: a stream_finder call that has ended queried exactly the platform its
\* filter names ("twitch" or "youtube" in any case), and both when no filter
\* was given; its reply lists every Twitch line before every YouTube line;
\* and with an empty result list the reply is the no-live-streams text.
C16_StreamFinderQueriesByFilter ==
    sf.pc \in {"returned", "raised"} =>
        /\ Named(sf.platform) => sf.queried = Wanted(sf.platform)
        /\ sf.pc = "returned" =>
              /\ TwitchFirst(sf.reply)
              /\ sf.results = <<>> => sf.reply = NoStreamsMessage

\* C17: no user's timestamp ever decreases: every store of dsa_daily_problem
\* and of the sweep writes a value at least as large as the one it replaces,
\* also when the storing coroutine took its `now` before it suspended and
\* another coroutine stored for the same user in between.
C17_TimestampNeverDecreases ==
    [][ \A u \in DOMAIN user_last_request :
          user_last_request'[u] >= user_last_request[u] ]_vars

\* C18: in every reachable state the users with a record are the users with
\* a timestamp: the two entries are written in the same step, with no
\* suspension between the two stores.
C18_RecordIffTimestamp == DOMAIN user_current_problem = DOMAIN user_last_request

\* The sweep has just pushed a record while both users have a record and a
\* timestamp.
C18_Witness ==
    /\ last.op = "sweep_resume"
    /\ last.reply.kind = "pushed"
    /\ DOMAIN user_current_problem = Users
    /\ DOMAIN user_last_request = Users

\* C19: a user who has a record has one in every later state (a record is
\* replaced, never removed, whatever the clock and whatever a fetch ends
\* with); so every user with a positive balance has a record; and a non-blank
\* submission by a user with a record is accepted and adds 10 every time,
\* whatever was rewarded before for the same record.
C19_RecordStaysAndKeepsPaying ==
    [][ \A u \in Users :
          /\ HasRecord(u) =>
                /\ u \in DOMAIN user_current_problem'
                /\ \A s \in Solutions :
                      ( /\ last'.op = "submit"
                        /\ last'.user = u
                        /\ NonBlank(s)
                        /\ check_dsa_solution(u, s) )
                      => /\ last'.reply.kind = "saved"
                         /\ user_points'[u] = Get(user_points, u, 0) + REWARD
          /\ Get(user_points', u, 0) > 0 => u \in DOMAIN user_current_problem'
       ]_vars

\* A third submission for the same record has just been rewarded, a full
\* cooldown after the record was stored.
C19_Witness ==
    /\ last.op = "submit"
    /\ last.reply.kind = "saved"
    /\ last.reply.n = 3 * REWARD
    /\ HasRecord(last.user)
    /\ clock - user_last_request[last.user] >= COOLDOWN

\* C20: every balance reachable from the empty start is a multiple of 10
\* (the only changes are +10 by a submission and -50 by a claim), so no user
\* ever has 45 points.
C20_PointsMultipleOfTen ==
    \A u \in DOMAIN user_points :
        /\ user_points[u] % 10 = 0
        /\ user_points[u] # 45

\* A fifth submission has just brought a balance to the cost of a reward.
C20_Witness ==
    /\ last.op = "submit"
    /\ last.reply.kind = "saved"
    /\ user_points[last.user] = REWARD_COST

\* The entry of user v in a dict is the same before (d) and after (e) the step.
SameEntry(d, e, v) ==
    /\ (v \in DOMAIN e) = (v \in DOMAIN d)
    /\ v \in DOMAIN d => e[v] = d[v]

\* The step changes the timestamp, the record or the balance of user v.
Touched(v) ==
    \/ ~SameEntry(user_last_request, user_last_request', v)
    \/ ~SameEntry(user_current_problem, user_current_problem', v)
    \/ ~SameEntry(user_points, user_points', v)

\* The step is one of a tool called for user u (such a step is observed as
\* one of u).
ToolStepFor(u) ==
    /\ last'.user = u
    /\ \/ \E t \in Tasks : dsa_daily_problem(t, u)
       \/ \E t \in Tasks, r \in FetchResults :
             /\ req[t].pc = "await"
             /\ req[t].user_id = u
             /\ dsa_daily_problem_resume(t, r)
       \/ \E s \in Solutions : check_dsa_solution(u, s)
       \/ show_points(u)
       \/ claim_rewards(u)

\* The step is one of dsa_daily_problem or of the sweep.
FetchingStep ==
    /\ last'.op \in {"daily", "daily_await", "daily_resume", "sweep_begin",
                     "sweep_resume"}
    /\ \/ \E t \in Tasks, u \in Users : dsa_daily_problem(t, u)
       \/ \E t \in Tasks, r \in FetchResults : dsa_daily_problem_resume(t, r)
       \/ auto_push_begin
       \/ \E r \in FetchResults : auto_push_resume(r)

\* C21: a step of dsa_daily_problem, check_dsa_solution, show_points or
\* claim_rewards called for user u leaves the timestamp, the record and the
\* balance of every other user v unchanged, whatever other calls and sweep
\* steps it is interleaved with (a step that touches an entry of v is not a
\* step of a tool called for another user); and no step of dsa_daily_problem
\* or of the sweep changes a balance.
C21_OtherUsersUntouched ==
    [][ /\ \A v \in Users :
             Touched(v) => \A u \in Users \ {v} : ~ToolStepFor(u)
        /\ user_points' # user_points => ~FetchingStep ]_vars

\* A call for one user has just stored a record while the other user, whose
\* coroutine is still suspended, keeps an older record, timestamp and points.
C21_Witness ==
    /\ last.op = "daily_resume"
    /\ last.reply.kind = "fresh"
    /\ \E v \in Users \ {last.user} :
          /\ HasRecord(v)
          /\ user_current_problem[v] # user_current_problem[last.user]
          /\ Get(user_points, v, 0) > 0
          /\ \E t \in Tasks : req[t].pc = "await" /\ req[t].user_id = v

====
